---- MODULE Spec2Model ----
(***************************************************************************)
(* Workflow orchestration core of research-collaborative:                  *)
(*   - route_next_step / check_communication_routing  (workflow/router.py) *)
(*   - the LangGraph workflow and its five nodes       (workflow/graph.py) *)
(*   - RetryManager.execute_with_retry              (workflow/recovery.py) *)
(*   - CommunicationBus.send_message           (workflow/communication.py) *)
(*   - BaseAgent.execute_with_monitoring            (agents/base_agent.py) *)
(* The workflow state dict is the record `st`; a key that is absent from   *)
(* the dict is the value state.get() would default to (FALSE, 0, <<>>).    *)
(* Lists whose elements the core never inspects (papers_found,             *)
(* research_gaps) are kept by their length.                                *)
(***************************************************************************)
EXTENDS Integers, Sequences, FiniteSets, TLC

VARIABLES
    st,          \* the workflow state dict handed from node to router to node
    pc,          \* position of the engine / of the caller of the router
    node,        \* graph node that runs next or that ran last
    route,       \* last value returned by route_next_step
    reason,      \* which routing rule produced `route` (<<kind, index>>)
    pre,         \* history: the state the router was last consulted on
    executed,    \* history: how often each node was dispatched in this run
    reroutes,    \* history: re-routing decisions taken so far, in order
    outcome,     \* how run() came back: "none", "normal" or "exception"
    msgs,        \* number of messages recorded through the bus / agent API
    elapsed,     \* seconds of wall clock spent inside workflow.invoke so far
    rpc,         \* position inside RetryManager.execute_with_retry
    step_name,   \* step_name argument of the current execute_with_retry call
    retry_count, \* local variable retry_count of execute_with_retry
    invoked,     \* history: invocations of func in the current call
    failures,    \* history: exceptions raised by func in the current call
    slept,       \* history: the sleeps of the current call, in order
    entry,       \* history: the state as it was when the current call began
    calls,       \* number of execute_with_retry calls made so far
    cache,       \* CacheManager: metadata index and the files on disk
    now,         \* the wall clock the cache reads, in hours
    last,        \* history: the last cache operation and what it did
    threads,     \* concurrent callers of the cache: position and locals
    keyed        \* history: the last two calls of _generate_cache_key

vars == <<st, pc, node, route, reason, pre, executed, reroutes, outcome, msgs,
          elapsed, rpc, step_name, retry_count, invoked, failures, slept, entry,
          calls, cache, now, last, threads, keyed>>

wfVars == <<pc, node, route, reason, pre, executed, reroutes, outcome, msgs,
            elapsed>>

retryVars == <<rpc, step_name, retry_count, invoked, failures, slept, entry,
               calls>>

cacheVars == <<cache, now, last, threads, keyed>>

(***************************************************************************)
(* Bounds of the model                                                     *)
(***************************************************************************)
MaxPapers == 3
MaxDispatch == 12
MaxMessages == 2
MaxCalls == 3
FastStage == 1
SlowStage == 1801
MaxTtl == 1
MaxTime == 3
MaxFaultTime == 1
max_size_bytes == 5
MaxReroutes == 3

(***************************************************************************)
(* Program constants                                                       *)
(***************************************************************************)
ErrorCeiling == 5
max_execution_time == 1800
default_ttl == 24
TargetNumerator == 4
TargetDenominator == 5
MinPapersNoRetry == 3
RetryMaxCompleted == 2
MinGaps == 2
LowScore == 6
DefaultScore == 10
AssistPapers == 2
max_retries == 3
base_delay == 1
max_delay == 10
backoff_factor == 2
FallbackGaps == 2
RecoveryPapers == 1
RecoveryGaps == 2

(***************************************************************************)
(* Sequence helpers (Python list idioms used by the code)                  *)
(***************************************************************************)
InSeq(x, s) == \E i \in 1..Len(s) : s[i] = x

AddOnce(s, x) == IF InSeq(x, s) THEN s ELSE Append(s, x)

RemoveFirst(s, x) ==
    IF ~InSeq(x, s) THEN s
    ELSE LET i == CHOOSE k \in 1..Len(s) :
                      s[k] = x /\ \A j \in 1..(k - 1) : s[j] # x
         IN  SubSeq(s, 1, i - 1) \o SubSeq(s, i + 1, Len(s))

Count(x, s) == Cardinality({i \in 1..Len(s) : s[i] = x})

MinOf(S) == CHOOSE x \in S : \A y \in S : x <= y

(***************************************************************************)
(* Names                                                                   *)
(***************************************************************************)
NodeNames == {"literature_search", "analysis", "data_analysis",
              "hypothesis_generation", "publication"}

\* agent_id = name.lower().replace(' ', '_') of the agent a node runs
AgentIdOf ==
    [analysis              |-> "analysis_agent",
     data_analysis         |-> "data_analyzer_agent",
     hypothesis_generation |-> "synthesis_agent",
     publication           |-> "publication_assistant_agent"]

\* the error string _handle_error_with_communication appends: it is the
\* only error text that contains the agent's name
AgentErrorOf ==
    [analysis              |-> "Analysis Agent error",
     data_analysis         |-> "Data Analyzer Agent error",
     hypothesis_generation |-> "Synthesis Agent error",
     publication           |-> "Publication Assistant Agent error"]

\* the error string the agent's own execute() appends when it catches
InnerErrorOf ==
    [analysis              |-> "Analysis error",
     data_analysis         |-> "Data analysis error",
     hypothesis_generation |-> "Synthesis error",
     publication           |-> "Publication error"]

\* reason text of the escalation raised for repeated failures of an agent
EscalationReasonOf ==
    [analysis              |-> "Multiple failures in Analysis Agent",
     data_analysis         |-> "Multiple failures in Data Analyzer Agent",
     hypothesis_generation |-> "Multiple failures in Synthesis Agent",
     publication           |-> "Multiple failures in Publication Assistant Agent"]

\* `kw in reason.lower()` for the three keywords the router looks for
ReasonContains(text, kw) ==
    CASE kw = "analysis"   -> text = "Multiple failures in Analysis Agent"
      [] kw = "papers"     -> text = "Too few papers to continue"
      [] kw = "literature" -> text = "Literature coverage is thin"
      [] OTHER             -> FALSE

\* `kw in failed_step.lower()` for the agent names of quality assessments
AgentNameContains(name, kw) ==
    CASE kw = "analysis" -> name = "Analysis Agent"
      [] kw = "data"     -> name = "Data Analyzer Agent"
      [] OTHER           -> FALSE

\* step names execute_with_retry is called with: the five that have a
\* recovery strategy of their own and one that has none
StepNames == NodeNames \cup {"custom_step"}

(***************************************************************************)
(* The workflow state                                                      *)
(***************************************************************************)
\* EnhancedResearchWorkflow.run: initial_state
InitialState(q) ==
    [query                          |-> q,
     papers_found                   |-> 0,
     completed_steps                |-> <<>>,
     current_step                   |-> "literature_search",
     errors                         |-> <<>>,
     workflow_completed             |-> FALSE,
     total_execution_time           |-> FALSE,
     needs_additional_papers        |-> FALSE,
     needs_deeper_analysis          |-> FALSE,
     needs_statistical_summary      |-> FALSE,
     additional_papers_processing   |-> FALSE,
     deeper_analysis_processing     |-> FALSE,
     statistical_summary_processing |-> FALSE,
     escalations                    |-> <<>>,
     requires_manual_review         |-> FALSE,
     requires_human_review          |-> FALSE,
     assistance_requests            |-> <<>>,
     quality_assessments            |-> <<>>,
     literature_retry_attempted     |-> FALSE,
     gap_enhancement_attempted      |-> FALSE,
     quality_retry_attempted        |-> FALSE,
     publication_retry_attempted    |-> FALSE,
     research_gaps                  |-> 0,
     executive_summary              |-> FALSE,
     quantitative_insights          |-> FALSE,
     enhanced_statistical_summary   |-> FALSE,
     retry_counts                   |-> [n \in StepNames |-> 0],
     recovery_applied               |-> FALSE,
     recovery_type                  |-> "none",
     fallback                       |-> {}]

\* a failure that is not written to the errors log
DropError(s, e) == s

AppendError(s, e) == [s EXCEPT !.errors = Append(@, e)]

\* a node that returns without recording its stage
LeaveUnmarked(s, id) == s

MarkCompleted(s, id) == [s EXCEPT !.completed_steps = AddOnce(@, id)]

(***************************************************************************)
(* workflow/router.py                                                      *)
(***************************************************************************)
Decision(r, why, s) == [route |-> r, reason |-> why, st |-> s]

RoutableRequests == {"more_papers", "deeper_analysis", "statistical_summary"}

RouteOfRequest(t) ==
    CASE t = "more_papers"         -> "literature_search"
      [] t = "deeper_analysis"     -> "analysis"
      [] t = "statistical_summary" -> "data_analysis"

\* indices of the escalations with complexity == 'high'
HighPriority(s) ==
    {i \in 1..Len(s.escalations) : s.escalations[i].complexity = "high"}

MaxOf(S) == CHOOSE x \in S : \A y \in S : x >= y

\* check_communication_routing, lines 205-222: the most recent
\* high-complexity escalation names the stage to go back to
EscalationRouting(s) ==
    LET hp == HighPriority(s)
        i  == MaxOf(hp)
        s1 == [s EXCEPT !.requires_manual_review = TRUE]
        r  == s.escalations[i].reason
    IN  IF hp = {} THEN Decision("continue", <<"none", 0>>, s)
        ELSE IF ReasonContains(r, "literature") \/ ReasonContains(r, "papers")
            THEN Decision("literature_search", <<"escalation", i>>, s1)
        ELSE IF ReasonContains(r, "analysis")
            THEN Decision("analysis", <<"escalation", i>>, s1)
        ELSE Decision("continue", <<"none", 0>>, s1)

\* check_communication_routing, lines 224-246: the first routable request
\* among the last three unprocessed ones is marked processed and routed
AssistanceRouting(s) ==
    LET reqs   == s.assistance_requests
        unproc == {i \in 1..Len(reqs) : ~reqs[i].processed}
        last3  == {i \in unproc : Cardinality({j \in unproc : j > i}) < 3}
        cand   == {i \in last3 : reqs[i].request_type \in RoutableRequests}
        k      == MinOf(cand)
    IN  IF cand = {} THEN Decision("continue", <<"none", 0>>, s)
        ELSE Decision(RouteOfRequest(reqs[k].request_type),
                      <<"assistance_request", k>>,
                      [s EXCEPT !.assistance_requests[k].processed = TRUE])

\* check_communication_routing. processed_flags_to_clear is still empty when
\* the clearing loop of lines 200-203 is reached (every branch that appends
\* to it returns first), so the loop deletes nothing.
CheckCommunicationRouting(s) ==
    IF s.needs_additional_papers /\ ~s.additional_papers_processing
        THEN Decision("literature_search", <<"needs_additional_papers", 0>>,
                      [s EXCEPT !.additional_papers_processing = TRUE])
    ELSE IF s.needs_deeper_analysis /\ ~s.deeper_analysis_processing
        THEN Decision("analysis", <<"needs_deeper_analysis", 0>>,
                      [s EXCEPT !.deeper_analysis_processing = TRUE])
    ELSE IF s.needs_statistical_summary /\ ~s.statistical_summary_processing
        THEN Decision("data_analysis", <<"needs_statistical_summary", 0>>,
                      [s EXCEPT !.statistical_summary_processing = TRUE])
    ELSE LET e == EscalationRouting(s)
         IN  IF e.route # "continue" THEN e ELSE AssistanceRouting(e.st)

HypothesisComplete(s) ==
    InSeq("hypothesis_generator", s.completed_steps)
        \/ InSeq("synthesis_agent", s.completed_steps)

\* qa.get('score', 1.0) < 0.6, scores in tenths
LowQualitySteps(s) ==
    {i \in 1..Len(s.quality_assessments) :
        s.quality_assessments[i].score < LowScore}

\* route_next_step, lines 115-133: publication retry, else "end"
PublicationRetryRouting(s) ==
    IF InSeq("publication_assistant", s.completed_steps)
       /\ ~s.executive_summary /\ ~s.publication_retry_attempted
        THEN Decision("publication", <<"publication_retry", 0>>,
                      [s EXCEPT !.publication_retry_attempted = TRUE,
                                !.completed_steps =
                                    RemoveFirst(@, "publication_assistant")])
        ELSE Decision("end", <<"default", 0>>, s)

\* route_next_step, lines 99-113: quality retry; the attempted flag is set
\* even when neither branch returns
QualityRetryRouting(s) ==
    LET low    == LowQualitySteps(s)
        failed == s.quality_assessments[MinOf(low)].agent
        s1     == [s EXCEPT !.quality_retry_attempted = TRUE]
    IN  IF low = {} \/ s.quality_retry_attempted
            THEN PublicationRetryRouting(s)
        ELSE IF AgentNameContains(failed, "analysis")
                /\ InSeq("analysis_agent", s.completed_steps)
            THEN Decision("analysis", <<"quality_retry", 0>>,
                          [s1 EXCEPT !.needs_deeper_analysis = TRUE])
        ELSE IF AgentNameContains(failed, "data")
                /\ InSeq("data_analyzer", s.completed_steps)
            THEN Decision("data_analysis", <<"quality_retry", 0>>, s1)
        ELSE PublicationRetryRouting(s1)

\* route_next_step, lines 76-97: literature retry and gap enhancement
RetryRouting(s) ==
    IF s.papers_found < MinPapersNoRetry
       /\ ~InSeq("literature_retry", s.completed_steps)
       /\ Len(s.completed_steps) < RetryMaxCompleted
       /\ ~s.literature_retry_attempted
        THEN Decision("literature_search", <<"literature_retry", 0>>,
                      [s EXCEPT !.literature_retry_attempted = TRUE])
    ELSE IF s.research_gaps < MinGaps
            /\ ~InSeq("gap_enhancement", s.completed_steps)
            /\ InSeq("analysis_agent", s.completed_steps)
            /\ ~s.gap_enhancement_attempted
        THEN Decision("analysis", <<"gap_enhancement", 0>>,
                      [s EXCEPT !.needs_deeper_analysis = TRUE,
                                !.gap_enhancement_attempted = TRUE])
    ELSE QualityRetryRouting(s)

\* a router without the error ceiling
NoErrorCeiling(s) == FALSE

\* route_next_step, lines 24-27: len(errors) > 5
ErrorCeilingReached(s) == Len(s.errors) > ErrorCeiling

\* rule 1 without the check for sufficient papers
AfterLiteratureNoGate(s) == Decision("analysis", <<"sequence", 0>>, s)

\* route_next_step, lines 30-38: rule 1, after the literature search
AfterLiterature(s) ==
    IF s.papers_found = 0 THEN Decision("end", <<"no_papers", 0>>, s)
    ELSE Decision("analysis", <<"sequence", 0>>, s)

\* route_next_step, lines 24-74: error ceiling, then the canonical order
SequentialRouting(s) ==
    LET cs == s.completed_steps
    IN  IF ErrorCeilingReached(s)
            THEN Decision("end", <<"error_ceiling", 0>>, s)
        ELSE IF InSeq("literature_scanner", cs) /\ ~InSeq("analysis_agent", cs)
            THEN AfterLiterature(s)
        ELSE IF InSeq("analysis_agent", cs) /\ ~InSeq("data_analyzer", cs)
            THEN Decision("data_analysis", <<"sequence", 0>>, s)
        ELSE IF InSeq("data_analyzer", cs) /\ ~HypothesisComplete(s)
            THEN Decision("hypothesis_generation", <<"sequence", 0>>, s)
        ELSE IF HypothesisComplete(s) /\ ~InSeq("publication_assistant", cs)
            THEN Decision("publication", <<"sequence", 0>>, s)
        ELSE RetryRouting(s)

\* route_next_step: the communication override comes first
route_next_step(s) ==
    LET c == CheckCommunicationRouting(s)
    IN  IF c.route # "continue" THEN c ELSE SequentialRouting(c.st)

(***************************************************************************)
(* workflow/communication.py                                               *)
(***************************************************************************)
MessageTypes == {"request_assistance", "escalate_task", "quality_check",
                 "share_resource", "request_retry"}

Message(snd, rcp, typ, req, why, cx) ==
    [sender |-> snd, recipient |-> rcp, message_type |-> typ,
     request_type |-> req, reason |-> why, complexity |-> cx]

\* CommunicationBus._handle_assistance_request; _request_statistical_summary
\* raises no flag: it writes enhanced_statistical_summary, a text it derives
\* itself from quantitative_insights, when that key is in the state
HandleAssistanceRequest(m, s) ==
    IF m.sender = "analysis_agent" /\ m.recipient = "literature_scanner"
       /\ m.request_type = "more_papers"
        THEN [s EXCEPT !.needs_additional_papers = TRUE]
    ELSE IF m.sender = "hypothesis_generator" /\ m.recipient = "analysis_agent"
            /\ m.request_type = "deeper_analysis"
        THEN [s EXCEPT !.needs_deeper_analysis = TRUE]
    ELSE IF m.sender = "publication_assistant" /\ m.recipient = "data_analyzer"
            /\ m.request_type = "statistical_summary"
            /\ s.quantitative_insights
        THEN [s EXCEPT !.enhanced_statistical_summary = TRUE]
    ELSE s

\* CommunicationBus._handle_task_escalation
HandleTaskEscalation(m, s) ==
    LET s1 == [s EXCEPT !.escalations =
                   Append(@, [sender |-> m.sender, reason |-> m.reason,
                              complexity |-> m.complexity])]
    IN  IF m.complexity = "high"
            THEN [s1 EXCEPT !.requires_human_review = TRUE]
            ELSE s1

\* CommunicationBus._handle_quality_check: the record it appends has the keys
\* checker/content_type/quality_score/passed, so the router's
\* qa.get('agent', 'unknown') and qa.get('score', 1.0) read the defaults
HandleQualityCheck(m, s) ==
    [s EXCEPT !.quality_assessments =
         Append(@, [agent |-> "unknown", score |-> DefaultScore])]

\* CommunicationBus.send_message
send_message(m, s) ==
    CASE m.message_type = "request_assistance" -> HandleAssistanceRequest(m, s)
      [] m.message_type = "escalate_task"      -> HandleTaskEscalation(m, s)
      [] m.message_type = "quality_check"      -> HandleQualityCheck(m, s)
      [] OTHER                                 -> s

(***************************************************************************)
(* agents/base_agent.py                                                    *)
(***************************************************************************)
\* errors that contain the agent's name
AgentErrors(s, n) == Count(AgentErrorOf[n], s.errors)

\* BaseAgent._should_request_assistance
ShouldRequestAssistance(s, n) ==
    LET qa     == s.quality_assessments
        recent == IF Len(qa) <= 2 THEN qa ELSE SubSeq(qa, Len(qa) - 1, Len(qa))
        total  == IF Len(recent) = 0 THEN 0
                  ELSE IF Len(recent) = 1 THEN recent[1].score
                  ELSE recent[1].score + recent[2].score
    IN  \/ AgentErrors(s, n) >= 2
        \/ s.papers_found < AssistPapers
        \/ (Len(recent) > 0 /\ total < LowScore * Len(recent))

\* BaseAgent.request_assistance_with_fallback, the branch taken when the
\* bus is not available: the request is queued and the basic ones raise
\* their flag directly
RequestAssistanceFallback(s, name, rcp, req) ==
    LET s1 == [s EXCEPT !.assistance_requests =
                   Append(@, [sender |-> name, recipient |-> rcp,
                              request_type |-> req, processed |-> FALSE])]
    IN  IF req = "more_papers" /\ rcp = "literature_scanner"
            THEN [s1 EXCEPT !.needs_additional_papers = TRUE]
        ELSE IF req = "deeper_analysis" /\ rcp = "analysis_agent"
            THEN [s1 EXCEPT !.needs_deeper_analysis = TRUE]
        ELSE IF req = "statistical_summary" /\ rcp = "data_analyzer"
            THEN [s1 EXCEPT !.needs_statistical_summary = TRUE]
        ELSE s1

\* BaseAgent.escalate_task_with_fallback, the branch without the bus
EscalateTaskFallback(s, name, why, cx) ==
    LET s1 == [s EXCEPT !.escalations =
                   Append(@, [sender |-> name, reason |-> why,
                              complexity |-> cx])]
    IN  IF cx = "high" THEN [s1 EXCEPT !.requires_manual_review = TRUE]
        ELSE s1

\* BaseAgent._perform_self_quality_check: the caller's score (in tenths)
\* follows the length of the content and is 0, 4, 7 or 8
PerformSelfQualityCheck(s, name, score) ==
    [s EXCEPT !.quality_assessments =
         Append(@, [agent |-> name, score |-> score])]

\* BaseAgent._handle_assistance_requests, sent through the bus
HandleAssistanceRequests(s, n) ==
    LET s1 == IF AgentErrors(s, n) >= 2
                 THEN send_message(Message(AgentIdOf[n], "workflow_coordinator",
                          "request_assistance", "error_assistance", "", ""), s)
                 ELSE s
    IN  IF s1.papers_found < AssistPapers
            THEN send_message(Message(AgentIdOf[n], "literature_scanner",
                     "request_assistance", "more_papers", "", ""), s1)
            ELSE s1

\* BaseAgent._handle_error_with_communication
HandleErrorWithCommunication(s, n) ==
    LET s1 == AppendError(s, AgentErrorOf[n])
    IN  IF AgentErrors(s1, n) >= 2
            THEN send_message(Message(AgentIdOf[n], "workflow_coordinator",
                     "escalate_task", "", EscalationReasonOf[n], "high"), s1)
            ELSE s1

\* BaseAgent._validate_input_state: the query is present and has >= 3 chars
ValidateInputState(s) == s.query \notin {"", "ab"}

\* what the agent's own execute() leaves on the state: exec = "ok" or
\* "caught" (its except branch appended an error and wrote fallbacks)
AgentArtifacts(s, n, o) ==
    LET s1 == IF o.exec = "caught" THEN AppendError(s, InnerErrorOf[n]) ELSE s
    IN  CASE n = "analysis"    -> [s1 EXCEPT !.research_gaps = o.gaps]
          [] n = "publication" -> [s1 EXCEPT !.executive_summary = TRUE]
          [] n = "data_analysis" ->
                 [s1 EXCEPT !.quantitative_insights = TRUE]
          [] OTHER             -> s1

\* BaseAgent.execute_with_monitoring; o.exec = "raise" is an exception
\* escaping execute(). _perform_self_assessment asks for a quality check only
\* below a score of 0.6 = 0.4*errors + 0.4*completeness + 0.2*time; the error
\* factor is 1 (no error text contains an agent_id), the time factor is at
\* least 0.5 and every execute() that returns leaves one of the outputs the
\* completeness factor counts, so the score never falls below 0.6.
execute_with_monitoring(s, n, o) ==
    IF ~ValidateInputState(s) THEN HandleErrorWithCommunication(s, n)
    ELSE LET s1 == IF ShouldRequestAssistance(s, n)
                      THEN HandleAssistanceRequests(s, n) ELSE s
             s2 == [s1 EXCEPT !.current_step = AgentIdOf[n]]
         IN  IF o.exec = "raise" THEN HandleErrorWithCommunication(s2, n)
             ELSE MarkCompleted(AgentArtifacts(s2, n, o), AgentIdOf[n])

\* outcomes of one agent node: research_gaps is written by analysis alone
AgentOutcomes(n) ==
    [exec : {"ok", "caught", "raise"},
     gaps : IF n = "analysis" THEN {0, MinGaps} ELSE {0},
     timeout : BOOLEAN]

(***************************************************************************)
(* workflow/graph.py: the five node functions                              *)
(***************************************************************************)
Queries == {"", "ab", "test topic"}

SearchOutcomes == [raised : BOOLEAN, papers : 0..MaxPapers]

\* literature_search_node; o.raised: arxiv_searcher.search failed on each of
\* its three attempts, otherwise it returned o.papers papers
literature_search_node(s, o) ==
    IF s.query = "" THEN AppendError(s, "No query provided")
    ELSE LET s1 == [s EXCEPT !.needs_additional_papers = FALSE]
         IN  IF o.raised
                 THEN MarkCompleted(
                          [AppendError(s1, "Literature search error")
                              EXCEPT !.papers_found = 0],
                          "literature_scanner")
                 ELSE LET s2 == [MarkCompleted(
                                     [s1 EXCEPT !.papers_found = o.papers],
                                     "literature_scanner")
                                   EXCEPT !.current_step = "analysis"]
                      IN  IF o.papers = 0
                              THEN AppendError(s2, "No papers found for analysis")
                              ELSE s2

\* analysis_node; o.timeout: the agent took longer than the node's timeout
analysis_node(s, o) ==
    LET body ==
            IF s.papers_found = 0 THEN [s EXCEPT !.research_gaps = 0]
            ELSE LET r == execute_with_monitoring(s, "analysis", o)
                 IN  IF o.timeout
                         THEN [AppendError(r, "Analysis timeout - using fallback")
                                  EXCEPT !.research_gaps = FallbackGaps]
                         ELSE r
    IN  [MarkCompleted(body, "analysis_agent")
            EXCEPT !.current_step = "data_analysis"]

\* data_analysis_node
data_analysis_node(s, o) ==
    LET r  == execute_with_monitoring(s, "data_analysis", o)
        r1 == IF o.timeout
                  THEN [AppendError(r, "Data analysis error")
                           EXCEPT !.quantitative_insights = TRUE]
                  ELSE r
    IN  [MarkCompleted(r1, "data_analyzer")
            EXCEPT !.current_step = "hypothesis_generation"]

\* hypothesis_generation_node: the success path adds hypothesis_generator
\* only when synthesis_agent is absent too, the except path whenever
\* hypothesis_generator itself is absent
hypothesis_generation_node(s, o) ==
    LET r == execute_with_monitoring(s, "hypothesis_generation", o)
    IN  IF o.timeout
            THEN [MarkCompleted(AppendError(r, "Hypothesis generation error"),
                                "hypothesis_generator")
                     EXCEPT !.current_step = "publication"]
            ELSE [(IF HypothesisComplete(r) THEN r
                   ELSE MarkCompleted(r, "hypothesis_generator"))
                     EXCEPT !.current_step = "publication"]

\* publication_node
publication_node(s, o) ==
    LET r  == execute_with_monitoring(s, "publication", o)
        r1 == IF o.timeout
                 THEN [AppendError(r, "Publication error")
                          EXCEPT !.executive_summary = TRUE]
                 ELSE r
    IN  [MarkCompleted(r1, "publication_assistant")
            EXCEPT !.current_step = "completed", !.workflow_completed = TRUE]

(***************************************************************************)
(* workflow/graph.py: the graph and EnhancedResearchWorkflow.run           *)
(***************************************************************************)
\* _build_graph: keys of each node's conditional edge map; publication has
\* the unconditional edge to END
EdgeMap ==
    [literature_search     |-> {"analysis", "literature_search", "end"},
     analysis              |-> {"data_analysis", "analysis", "end"},
     data_analysis         |-> {"hypothesis_generation", "data_analysis", "end"},
     hypothesis_generation |-> {"publication", "hypothesis_generation", "end"},
     publication           |-> {}]

ReentryReasons ==
    {"needs_additional_papers", "needs_deeper_analysis",
     "needs_statistical_summary", "assistance_request", "escalation",
     "literature_retry", "gap_enhancement", "quality_retry",
     "publication_retry"}

RECURSIVE SumOver(_, _)
SumOver(f, S) ==
    IF S = {} THEN 0
    ELSE LET x == CHOOSE y \in S : TRUE IN f[x] + SumOver(f, S \ {x})

Dispatches == SumOver(executed, NodeNames)

Dispatch(n) == executed' = [executed EXCEPT ![n] = @ + 1]

(***************************************************************************)
(* utils/cache_manager.py: CacheManager. `cache` holds the metadata index  *)
(* (entries in dict order, total_size) and the .pkl files of the cache     *)
(* directory; time is counted in hours and sizes in bytes.                 *)
(***************************************************************************)
Keys == {"k1", "k2"}

\* what get returns on a miss, and the content of a file that does not exist
None == <<>>

\* a file that open(cache_file, 'wb') created or emptied and pickle.dump did
\* not complete: pickle.load raises on it
Truncated == <<0>>

\* cached data, as the bytes pickle writes for it
Values == {<<1>>, <<2, 2, 2, 2>>}

\* cache_file.stat().st_size after pickle.dump(data, f)
PickledSize(v) == Len(v)

\* pickle.load of a file pickle.dump wrote
Unpickle(bytes) == bytes

\* the ttl argument of set: None, or a timedelta of so many hours
TtlArgs ==
    {[given |-> FALSE, hours |-> 0]}
        \cup {[given |-> TRUE, hours |-> h] : h \in 0..MaxTtl}

\* (ttl or self.default_ttl).total_seconds(): a timedelta of zero is falsy
TtlOrDefault(ttl) ==
    IF ttl.given /\ ttl.hours # 0 THEN ttl.hours ELSE default_ttl

EmptyCache ==
    [entries |-> <<>>, total_size |-> 0, files |-> [k \in Keys |-> None]]

HasEntry(c, k) == \E i \in 1..Len(c.entries) : c.entries[i].key = k

EntryOf(c, k) ==
    c.entries[CHOOSE i \in 1..Len(c.entries) : c.entries[i].key = k]

\* datetime.now() - created_time > ttl
Expired(e, t) == t - e.created > e.ttl_seconds

\* _delete_entry without the unlink of the payload file
DeleteEntryKeepsFile(c, k) ==
    LET Kept(e) == e.key # k
    IN  [entries    |-> SelectSeq(c.entries, Kept),
         total_size |-> IF HasEntry(c, k)
                            THEN c.total_size - EntryOf(c, k).size
                            ELSE c.total_size,
         files      |-> c.files]

\* _delete_entry
DeleteEntry(c, k) ==
    LET Kept(e) == e.key # k
    IN  [entries    |-> SelectSeq(c.entries, Kept),
         total_size |-> IF HasEntry(c, k)
                            THEN c.total_size - EntryOf(c, k).size
                            ELSE c.total_size,
         files      |-> [c.files EXCEPT ![k] = None]]

\* get at time t: the cache afterwards and the value returned
Get(c, k, t) ==
    IF c.files[k] = None
        THEN [cache |-> c, result |-> None]
    ELSE IF HasEntry(c, k) /\ Expired(EntryOf(c, k), t)
        THEN [cache |-> DeleteEntry(c, k), result |-> None]
    ELSE IF c.files[k] = Truncated
        THEN [cache |-> c, result |-> None]
    ELSE [cache |-> c, result |-> Unpickle(c.files[k])]

\* get at time t when reading the file fails: the exception is caught after
\* the existence and expiry tests and None is returned
GetFails(c, k, t) == [cache |-> Get(c, k, t).cache, result |-> None]

\* entries.sort(key=last_accessed): a stable sort of the dict's items
RECURSIVE SortByLastAccessed(_)
SortByLastAccessed(es) ==
    IF es = <<>> THEN <<>>
    ELSE LET i == CHOOSE i \in 1..Len(es) :
                      \A j \in 1..Len(es) :
                          \/ es[j].last_accessed > es[i].last_accessed
                          \/ /\ es[j].last_accessed = es[i].last_accessed
                             /\ j >= i
             rest == [j \in 1..(Len(es) - 1) |->
                          IF j < i THEN es[j] ELSE es[j + 1]]
         IN  <<es[i]>> \o SortByLastAccessed(rest)

\* the dict's items, last inserted first
InsertionOrderReversed(es) == [j \in 1..Len(es) |-> es[Len(es) + 1 - j]]

\* the order in which _cleanup_if_needed visits the entries
EvictionOrder(es) == SortByLastAccessed(es)

\* total_size <= self.max_size_bytes * 0.8
UnderTarget(total) ==
    total * TargetDenominator <= max_size_bytes * TargetNumerator

\* the loop of _cleanup_if_needed over the sorted snapshot
RECURSIVE Evict(_, _, _)
Evict(order, c, ev) ==
    IF order = <<>> \/ UnderTarget(c.total_size)
        THEN [cache |-> c, evicted |-> ev]
        ELSE Evict(Tail(order), DeleteEntry(c, Head(order).key),
                   Append(ev, [key           |-> Head(order).key,
                               last_accessed |-> Head(order).last_accessed,
                               total_before  |-> c.total_size]))

\* _cleanup_if_needed
CleanupIfNeeded(c) ==
    IF c.total_size <= max_size_bytes
        THEN [cache |-> c, triggered |-> FALSE, evicted |-> <<>>]
        ELSE LET r == Evict(EvictionOrder(c.entries), c, <<>>)
             IN  [cache |-> r.cache, triggered |-> TRUE,
                  evicted |-> r.evicted]

\* set at time t: cleanup, write the file, write the entry (an existing key
\* keeps its place in the dict), add the file size to total_size
Set(c, k, v, ttl, t) ==
    LET cl == CleanupIfNeeded(c)
        c1 == cl.cache
        e  == [key           |-> k,
               created       |-> t,
               size          |-> PickledSize(v),
               ttl_seconds   |-> TtlOrDefault(ttl),
               access_count  |-> 1,
               last_accessed |-> t]
    IN  [cache |-> [entries    |-> IF HasEntry(c1, k)
                                       THEN [i \in 1..Len(c1.entries) |->
                                                IF c1.entries[i].key = k
                                                    THEN e
                                                    ELSE c1.entries[i]]
                                       ELSE Append(c1.entries, e),
                    total_size |-> c1.total_size + PickledSize(v),
                    files      |-> [c1.files EXCEPT ![k] = v]],
         triggered |-> cl.triggered,
         evicted   |-> cl.evicted]

\* set when writing fails: the cleanup has run; either open raised and the
\* file is as it was, or the file was opened (and so emptied) and
\* pickle.dump raised; the except branch returns False
SetFails(c, k, opened) ==
    LET cl == CleanupIfNeeded(c)
    IN  [cache |-> IF opened
                       THEN [cl.cache EXCEPT !.files[k] = Truncated]
                       ELSE cl.cache,
         triggered |-> cl.triggered,
         evicted   |-> cl.evicted]

\* clear_expired at time t
RECURSIVE DeleteAll(_, _)
DeleteAll(c, es) ==
    IF es = <<>> THEN c ELSE DeleteAll(DeleteEntry(c, Head(es).key), Tail(es))

ClearExpired(c, t) ==
    LET Old(e) == Expired(e, t)
    IN  DeleteAll(c, SelectSeq(c.entries, Old))

\* history of the last cache operation
NoOperation ==
    [op |-> "none", at |-> 0, key |-> "none", value |-> None,
     ttl |-> [given |-> FALSE, hours |-> 0], result |-> None,
     triggered |-> FALSE, evicted |-> <<>>]

(***************************************************************************)
(* CacheManager._generate_cache_key. Argument values are kept by their     *)
(* Python type and content; str() and json.dumps() are modelled by the     *)
(* text they produce for each type, md5 as the identity on that text.      *)
(***************************************************************************)
FuncNames == {"search", "analyze"}

\* argument values: 1, (1, 2) and [1, 2]
ArgValues ==
    {[type |-> "int",   items |-> <<1>>],
     [type |-> "tuple", items |-> <<1, 2>>],
     [type |-> "list",  items |-> <<1, 2>>]}

\* values passed by keyword
KwargValues == ArgValues

\* values passed by position
PositionalValues == {v \in ArgValues : v.type \in {"tuple", "list"}}

\* repr(), which str(args) applies to the elements of the tuple: 1, '1',
\* (1, 2), [1, 2]
Repr(v) ==
    [form |-> CASE v.type = "int"   -> "digits"
                [] v.type = "str"   -> "quoted"
                [] v.type = "tuple" -> "parentheses"
                [] v.type = "list"  -> "brackets",
     items |-> v.items]

\* json.dumps of a value: 1, "1", [1, 2], [1, 2]; a tuple is written as an
\* array, the same as a list
JsonOf(v) ==
    [form |-> CASE v.type = "int"   -> "number"
                [] v.type = "str"   -> "string"
                [] v.type = "tuple" -> "array"
                [] v.type = "list"  -> "array",
     items |-> v.items]

\* str(args)
StrOfArgs(args) == [i \in 1..Len(args) |-> Repr(args[i])]

\* the keyword names, in the order sorted() puts them
KwargNames == <<"a", "b">>

NameRank(n) == CHOOSE i \in 1..Len(KwargNames) : KwargNames[i] = n

\* positional argument tuples
ArgTuples == {<<>>} \cup {<<v>> : v \in PositionalValues}

\* keyword arguments in the order the call site wrote them
KwargLists ==
    LET one == {<<n, v>> : n \in {"a", "b"}, v \in KwargValues}
    IN  {<<>>}
            \cup {<<p>> : p \in one}
            \cup {s \in {<<p, q>> : p \in one, q \in one} :
                      s[1][1] # s[2][1]}

\* sorted(kwargs.items()): by name, the names being distinct
RECURSIVE SortedItems(_)
SortedItems(kw) ==
    IF kw = <<>> THEN <<>>
    ELSE LET i == CHOOSE i \in 1..Len(kw) :
                      \A j \in 1..Len(kw) :
                          NameRank(kw[i][1]) <= NameRank(kw[j][1])
             rest == [j \in 1..(Len(kw) - 1) |->
                          IF j < i THEN kw[j] ELSE kw[j + 1]]
         IN  <<kw[i]>> \o SortedItems(rest)

\* the 'kwargs' member of key_data
KwargItems(kw) == SortedItems(kw)

\* _generate_cache_key: key_data as json.dumps(sort_keys=True) writes it
GenerateCacheKey(f, args, kw) ==
    LET items == KwargItems(kw)
    IN  [function |-> f,
         args     |-> StrOfArgs(args),
         kwargs   |-> [i \in 1..Len(items) |->
                          <<items[i][1], JsonOf(items[i][2])>>]]

NoKeyCall == [func |-> "none", args |-> <<>>, kwargs |-> <<>>, key |-> <<>>]

KeyIdle == keyed = <<NoKeyCall, NoKeyCall>>

Threads == {"t1", "t2"}

\* a caller that has not called yet
IdleThread ==
    [pc |-> "idle", key |-> "none", value |-> None, size |-> 0, total |-> 0]

CacheIdle ==
    /\ cache = EmptyCache
    /\ now = 0
    /\ last = NoOperation
    /\ threads = [t \in Threads |-> IdleThread]
    /\ KeyIdle

\* the state execute_with_retry is not working on
RetryIdle ==
    /\ rpc = "idle"
    /\ step_name = "none"
    /\ retry_count = 0
    /\ invoked = 0
    /\ failures = 0
    /\ slept = <<>>
    /\ calls = 0

\* run(query): the initial state enters the graph at literature_search
Init ==
    /\ \E q \in Queries : st = InitialState(q)
    /\ pc = "node"
    /\ node = "literature_search"
    /\ route = "none"
    /\ reason = <<"none", 0>>
    /\ pre = st
    /\ executed = [n \in NodeNames |-> 0]
    /\ reroutes = <<>>
    /\ outcome = "none"
    /\ msgs = 0
    /\ elapsed = 0
    /\ entry = st
    /\ RetryIdle
    /\ CacheIdle

\* wall-clock seconds one stage takes. Nothing interrupts a running agent:
\* the nodes compare the time taken with their timeout only after the agent
\* has returned, so a stage that overran its timeout can have taken any
\* longer time
StageDuration(slow) == IF slow THEN SlowStage ELSE FastStage

\* a graph in which every node has a conditional edge
ConditionalEdgeAfter(n) == "route"

\* _build_graph: where the engine goes after node n. The first four nodes
\* have conditional edges decided by route_next_step, publication has the
\* plain edge to END
EdgeAfter(n) == IF n = "publication" THEN "finish" ELSE "route"

\* one dispatch of node n; `after` is where the engine goes next
NodeRuns(n, after) ==
    /\ pc = "node"
    /\ node = n
    /\ Dispatches < MaxDispatch
    /\ Dispatch(n)
    /\ pc' = after
    /\ UNCHANGED <<node, route, reason, pre, reroutes, outcome, msgs, entry>>
    /\ UNCHANGED retryVars
    /\ UNCHANGED cacheVars

LiteratureSearchNode ==
    /\ \E o \in SearchOutcomes : st' = literature_search_node(st, o)
    /\ \E slow \in BOOLEAN : elapsed' = elapsed + StageDuration(slow)
    /\ NodeRuns("literature_search", EdgeAfter("literature_search"))

AnalysisNode ==
    /\ \E o \in AgentOutcomes("analysis") :
           /\ st' = analysis_node(st, o)
           /\ elapsed' = elapsed + StageDuration(o.timeout)
    /\ NodeRuns("analysis", EdgeAfter("analysis"))

DataAnalysisNode ==
    /\ \E o \in AgentOutcomes("data_analysis") :
           /\ st' = data_analysis_node(st, o)
           /\ elapsed' = elapsed + StageDuration(o.timeout)
    /\ NodeRuns("data_analysis", EdgeAfter("data_analysis"))

HypothesisGenerationNode ==
    /\ \E o \in AgentOutcomes("hypothesis_generation") :
           /\ st' = hypothesis_generation_node(st, o)
           /\ elapsed' = elapsed + StageDuration(o.timeout)
    /\ NodeRuns("hypothesis_generation", EdgeAfter("hypothesis_generation"))

\* publication has the unconditional edge to END: no router call follows
PublicationNode ==
    /\ \E o \in AgentOutcomes("publication") :
           /\ st' = publication_node(st, o)
           /\ elapsed' = elapsed + StageDuration(o.timeout)
    /\ NodeRuns("publication", EdgeAfter("publication"))

\* the re-routing decisions of a run, in the order they were taken
NoteReroute(d) ==
    IF d.reason[1] \in ReentryReasons THEN Append(reroutes, d.reason)
    ELSE reroutes

\* the conditional edge taken after `node`: the router's value is looked up
\* in the node's edge map; a value that is no key of the map raises out of
\* workflow.invoke
Route ==
    /\ pc = "route"
    /\ LET d == route_next_step(st)
       IN  /\ st' = d.st
           /\ route' = d.route
           /\ reason' = d.reason
           /\ pre' = st
           /\ reroutes' = NoteReroute(d)
           /\ IF d.route \notin EdgeMap[node]
                  THEN pc' = "failed" /\ node' = node
                  ELSE IF d.route = "end"
                           THEN pc' = "finish" /\ node' = node
                           ELSE pc' = "node" /\ node' = d.route
    /\ UNCHANGED <<executed, outcome, msgs, elapsed, entry>>
    /\ UNCHANGED retryVars
    /\ UNCHANGED cacheVars

\* run(): workflow.invoke returned; the 30 minute check and the metrics
RunReturn ==
    /\ pc = "finish"
    /\ LET late == elapsed > max_execution_time
       IN  st' = [(IF late
                      THEN [AppendError(st, "Workflow timeout")
                               EXCEPT !.workflow_completed = FALSE]
                      ELSE st)
                    EXCEPT !.total_execution_time = TRUE]
    /\ pc' = "done"
    /\ outcome' = "normal"
    /\ UNCHANGED <<node, route, reason, pre, executed, reroutes, msgs, elapsed,
                   entry>>
    /\ UNCHANGED retryVars
    /\ UNCHANGED cacheVars

\* the except branch without its error report
ErrorRecoveryWithoutReport(base) ==
    [AppendError(base, "Workflow failure")
        EXCEPT !.workflow_completed = FALSE,
               !.research_gaps = 0]

\* the except branch, had its update written the query as well
ErrorRecoveryLosesQuery(base) ==
    [ErrorRecoveryWithoutReport(base)
        EXCEPT !.query = "", !.executive_summary = TRUE]

\* run(), except branch: the update applied to initial_state
ErrorRecoveryState(base) ==
    [AppendError(base, "Workflow failure")
        EXCEPT !.workflow_completed = FALSE,
               !.research_gaps = 0,
               !.executive_summary = TRUE]

\* run(): workflow.invoke raised; initial_state is updated and returned.
\* Whether the dict the nodes mutated is initial_state itself or a copy the
\* graph made of it is the graph library's choice, so both are possible.
RunExcept ==
    /\ pc = "failed"
    /\ \E aliased \in BOOLEAN :
           st' = ErrorRecoveryState(IF aliased THEN st
                                    ELSE InitialState(st.query))
    /\ pc' = "done"
    /\ outcome' = "exception"
    /\ UNCHANGED <<node, route, reason, pre, executed, reroutes, msgs, elapsed,
                   entry>>
    /\ UNCHANGED retryVars
    /\ UNCHANGED cacheVars

Next ==
    \/ LiteratureSearchNode
    \/ AnalysisNode
    \/ DataAnalysisNode
    \/ HypothesisGenerationNode
    \/ PublicationNode
    \/ Route
    \/ RunReturn
    \/ RunExcept

Spec == Init /\ [][Next]_vars

(***************************************************************************)
(* route_next_step as the function scripts/test_core.py calls it: on a     *)
(* state dict the caller built, any number of times, with the agents'      *)
(* messaging API used on the same dict in between                          *)
(***************************************************************************)
CanonicalIds == <<"literature_scanner", "analysis_agent", "data_analyzer",
                  "hypothesis_generator", "publication_assistant">>

PaperCounts == {0, MaxPapers}

\* an error log one entry longer than the ceiling: what the three agent
\* nodes before publication leave when each fails in both of its ways
ErrorsOverCeiling ==
    <<"Analysis error", "Analysis timeout - using fallback",
      "Data analysis error", "Data analysis error",
      "Synthesis error", "Hypothesis generation error">>

\* the workflow state with the first k canonical stages completed
StateAfter(k, p, errs, g, x) ==
    [InitialState("test topic") EXCEPT
         !.completed_steps   = SubSeq(CanonicalIds, 1, k),
         !.papers_found      = p,
         !.errors            = errs,
         !.research_gaps     = g,
         !.executive_summary = x,
         !.quantitative_insights = InSeq("data_analyzer",
                                         SubSeq(CanonicalIds, 1, k))]

\* states as the nodes leave them: the initial state; the literature search
\* done with or without papers; later stages done on papers that were found,
\* with or without research gaps, with an error log that is empty or (once
\* the three agents before publication have run) over the ceiling, and with
\* or without the report once publication has run
RouterInputs ==
    {StateAfter(0, 0, <<>>, 0, FALSE),
     StateAfter(1, 0, <<"No papers found for analysis">>, 0, FALSE),
     StateAfter(1, MaxPapers, <<>>, 0, FALSE)}
    \cup UNION {{StateAfter(k, MaxPapers, errs, g, x) :
                    errs \in IF k < Len(CanonicalIds) - 1 THEN {<<>>}
                             ELSE {<<>>, ErrorsOverCeiling},
                    g \in {0, MinGaps},
                    x \in IF k < Len(CanonicalIds) THEN {FALSE} ELSE BOOLEAN} :
                k \in 2..Len(CanonicalIds)}

\* escalations agents raise: <<reason, complexity>>
Escalations ==
    {<<"Multiple failures in Analysis Agent", "high">>,
     <<"Too few papers to continue", "high">>,
     <<"Multiple failures in Data Analyzer Agent", "high">>,
     <<"Multiple failures in Analysis Agent", "medium">>}

\* messages agents put on the bus
BusMessages ==
    {Message("analysis_agent", "literature_scanner", "request_assistance",
             "more_papers", "", ""),
     Message("hypothesis_generator", "analysis_agent", "request_assistance",
             "deeper_analysis", "", ""),
     Message("publication_assistant", "data_analyzer", "request_assistance",
             "statistical_summary", "", ""),
     Message("analysis_agent", "quality_assessor", "quality_check", "", "", "")}
    \cup {Message("analysis_agent", "workflow_coordinator", "escalate_task",
                  "", e[1], e[2]) : e \in Escalations}

\* requests made through request_assistance_with_fallback: <<recipient, type>>
FallbackRequests ==
    {<<"literature_scanner", "more_papers">>,
     <<"analysis_agent", "deeper_analysis">>,
     <<"data_analyzer", "statistical_summary">>,
     <<"workflow_coordinator", "error_assistance">>}

\* escalations made through escalate_task_with_fallback
FallbackEscalations ==
    {<<"Multiple failures in Analysis Agent", "high">>,
     <<"Too few papers to continue", "medium">>}

\* self quality checks: <<agent name, score in tenths>>
SelfChecks ==
    {<<"Analysis Agent", 4>>, <<"Analysis Agent", 8>>,
     <<"Data Analyzer Agent", 4>>}

InitRouter ==
    /\ st \in RouterInputs
    /\ pc = "caller"
    /\ node = "none"
    /\ route = "none"
    /\ reason = <<"none", 0>>
    /\ pre = st
    /\ executed = [n \in NodeNames |-> 0]
    /\ reroutes = <<>>
    /\ outcome = "none"
    /\ msgs = 0
    /\ elapsed = 0
    /\ entry = st
    /\ RetryIdle
    /\ CacheIdle

\* one call route_next_step(state); the dict is mutated in place
RouterCall ==
    /\ pc = "caller"
    /\ Len(reroutes) < MaxReroutes
    /\ LET d == route_next_step(st)
       IN  /\ st' = d.st
           /\ route' = d.route
           /\ reason' = d.reason
           /\ pre' = st
           /\ reroutes' = NoteReroute(d)
    /\ UNCHANGED <<pc, node, executed, outcome, msgs, elapsed, entry>>
    /\ UNCHANGED retryVars
    /\ UNCHANGED cacheVars

Recorded(s) ==
    /\ pc = "caller"
    /\ msgs < MaxMessages
    /\ st' = s
    /\ msgs' = msgs + 1
    /\ UNCHANGED <<pc, node, route, reason, pre, executed, reroutes, outcome,
                   elapsed, entry>>
    /\ UNCHANGED retryVars
    /\ UNCHANGED cacheVars

BusSend == \E m \in BusMessages : Recorded(send_message(m, st))

FallbackRequest ==
    \E r \in FallbackRequests :
        Recorded(RequestAssistanceFallback(st, "Analysis Agent", r[1], r[2]))

FallbackEscalation ==
    \E e \in FallbackEscalations :
        Recorded(EscalateTaskFallback(st, "Analysis Agent", e[1], e[2]))

SelfQualityCheck ==
    \E c \in SelfChecks :
        Recorded(PerformSelfQualityCheck(st, c[1], c[2]))

NextRouter ==
    \/ RouterCall
    \/ BusSend
    \/ FallbackRequest
    \/ FallbackEscalation
    \/ SelfQualityCheck

SpecRouter == InitRouter /\ [][NextRouter]_vars

(***************************************************************************)
(* workflow/recovery.py: RetryManager                                      *)
(***************************************************************************)
\* the id a step's function adds to completed_steps when it succeeds
StageIdOf ==
    [literature_search     |-> "literature_scanner",
     analysis              |-> "analysis_agent",
     data_analysis         |-> "data_analyzer",
     hypothesis_generation |-> "hypothesis_generator",
     publication           |-> "publication_assistant",
     custom_step           |-> "custom_step"]

\* _apply_recovery_strategy: the recovery_strategies dict
recovery_strategies ==
    [literature_search     |-> "literature_fallback",
     analysis              |-> "analysis_fallback",
     data_analysis         |-> "data_analysis_fallback",
     hypothesis_generation |-> "hypothesis_fallback",
     publication           |-> "publication_fallback"]

\* the artifact each recovery function fabricates
FallbackArtifactOf ==
    [literature_fallback    |-> "papers_found",
     analysis_fallback      |-> "research_gaps",
     data_analysis_fallback |-> "quantitative_insights",
     hypothesis_fallback    |-> "hypotheses",
     publication_fallback   |-> "executive_summary",
     generic                |-> "recovery_message"]

\* recovery_strategies[failed_step]: a lookup without the default raises
\* KeyError for a step that has no strategy of its own
StrategyWithoutDefault(step) ==
    IF step \in DOMAIN recovery_strategies THEN recovery_strategies[step]
    ELSE "KeyError"

\* recovery_strategies.get(failed_step, self._generic_recovery)
StrategyFor(step) ==
    IF step \in DOMAIN recovery_strategies THEN recovery_strategies[step]
    ELSE "generic"

\* the recovery functions _recover_* and _generic_recovery
Recover(s, kind) ==
    LET s1 == [s EXCEPT !.recovery_applied = TRUE,
                        !.recovery_type = kind,
                        !.fallback = @ \cup {FallbackArtifactOf[kind]}]
    IN  CASE kind = "literature_fallback" ->
                 [s1 EXCEPT !.papers_found = RecoveryPapers]
          [] kind = "analysis_fallback" ->
                 [s1 EXCEPT !.research_gaps = RecoveryGaps]
          [] kind = "publication_fallback" ->
                 [s1 EXCEPT !.executive_summary = TRUE]
          [] kind = "data_analysis_fallback" ->
                 [s1 EXCEPT !.quantitative_insights = TRUE]
          [] OTHER -> s1

\* a loop that goes round once more: retry_count <= self.max_retries
LoopOneMore(rc) == rc <= max_retries

\* while retry_count < self.max_retries
LoopContinues(rc) == rc < max_retries

\* a success that leaves retry_counts as it is
KeepRetryCount(s, step) == s

\* del state['retry_counts'][step_name]
ClearRetryCount(s, step) == [s EXCEPT !.retry_counts[step] = 0]

RECURSIVE Power(_, _)
Power(b, n) == IF n = 0 THEN 1 ELSE b * Power(b, n - 1)

\* a delay whose exponent is the number of failures, not one less
DelayOfNextAttempt(rc) ==
    MinOf({base_delay * Power(backoff_factor, rc), max_delay})

\* min(base_delay * backoff_factor ** (retry_count - 1), max_delay)
Delay(rc) == MinOf({base_delay * Power(backoff_factor, rc - 1), max_delay})

\* states execute_with_retry is first called on
RetryInputs ==
    {[InitialState("test topic") EXCEPT
          !.completed_steps = SubSeq(CanonicalIds, 1, k),
          !.papers_found = p] :
       k \in 0..Len(CanonicalIds), p \in PaperCounts}

InitRetry ==
    /\ st \in RetryInputs
    /\ pc = "none"
    /\ node = "none"
    /\ route = "none"
    /\ reason = <<"none", 0>>
    /\ pre = st
    /\ executed = [n \in NodeNames |-> 0]
    /\ reroutes = <<>>
    /\ outcome = "none"
    /\ msgs = 0
    /\ elapsed = 0
    /\ entry = st
    /\ RetryIdle
    /\ CacheIdle

\* an attempt counter that starts from zero in every call
FreshRetryCount(s, step) == 0

\* state['retry_counts'].get(step_name, 0)
StoredRetryCount(s, step) == s.retry_counts[step]

\* execute_with_retry(func, state, step): lines 20-27
RetryCall ==
    /\ rpc \in {"idle", "succeeded", "recovered"}
    /\ calls < MaxCalls
    /\ \E step \in StepNames :
           /\ step_name' = step
           /\ retry_count' = StoredRetryCount(st, step)
    /\ calls' = calls + 1
    /\ invoked' = 0
    /\ failures' = 0
    /\ slept' = <<>>
    /\ entry' = st
    /\ rpc' = "loop"
    /\ UNCHANGED st
    /\ UNCHANGED wfVars
    /\ UNCHANGED cacheVars

\* func(state) returns: the step has marked itself completed
AttemptSucceeds ==
    /\ rpc = "loop"
    /\ LoopContinues(retry_count)
    /\ st' = ClearRetryCount(MarkCompleted(st, StageIdOf[step_name]), step_name)
    /\ invoked' = invoked + 1
    /\ rpc' = "succeeded"
    /\ UNCHANGED <<step_name, retry_count, failures, slept, entry, calls>>
    /\ UNCHANGED wfVars
    /\ UNCHANGED cacheVars

\* func(state) raises: the except branch counts the failure and decides
\* whether to sleep before the next attempt
AttemptFails ==
    /\ rpc = "loop"
    /\ LoopContinues(retry_count)
    /\ retry_count' = retry_count + 1
    /\ st' = [st EXCEPT !.retry_counts[step_name] = retry_count + 1]
    /\ invoked' = invoked + 1
    /\ failures' = failures + 1
    /\ rpc' = IF retry_count + 1 < max_retries THEN "sleep" ELSE "loop"
    /\ UNCHANGED <<step_name, slept, entry, calls>>
    /\ UNCHANGED wfVars
    /\ UNCHANGED cacheVars

\* random.uniform(0.1, 0.3), in percent of the delay: the two ends of the
\* interval and a value inside it
JitterPercents == {10, 20, 30}

\* time.sleep(delay + jitter), the jitter being a share of the delay; the
\* sleep is recorded with the number of invocations that preceded it
BackoffSleep ==
    /\ rpc = "sleep"
    /\ \E j \in JitterPercents :
           slept' = Append(slept, [after  |-> invoked,
                                   delay  |-> Delay(retry_count),
                                   jitter |-> j])
    /\ rpc' = "loop"
    /\ UNCHANGED <<st, step_name, retry_count, invoked, failures, entry, calls>>
    /\ UNCHANGED wfVars
    /\ UNCHANGED cacheVars

\* all retries exhausted: _apply_recovery_strategy
ApplyRecovery ==
    /\ rpc = "loop"
    /\ ~LoopContinues(retry_count)
    /\ LET kind == StrategyFor(step_name)
       IN  IF kind = "KeyError"
               THEN rpc' = "raised" /\ st' = st
               ELSE rpc' = "recovered" /\ st' = Recover(st, kind)
    /\ UNCHANGED <<step_name, retry_count, invoked, failures, slept, entry,
                   calls>>
    /\ UNCHANGED wfVars
    /\ UNCHANGED cacheVars

NextRetry ==
    \/ RetryCall
    \/ AttemptSucceeds
    \/ AttemptFails
    \/ BackoffSleep
    \/ ApplyRecovery

SpecRetry == InitRetry /\ [][NextRetry]_vars

(***************************************************************************)
(* CacheManager used on its own: set, get and clear_expired in any order   *)
(* while the clock moves on                                                *)
(***************************************************************************)
\* a fresh CacheManager on an empty cache directory
InitCache ==
    /\ st = InitialState("test topic")
    /\ pc = "none"
    /\ node = "none"
    /\ route = "none"
    /\ reason = <<"none", 0>>
    /\ pre = st
    /\ executed = [n \in NodeNames |-> 0]
    /\ reroutes = <<>>
    /\ outcome = "none"
    /\ msgs = 0
    /\ elapsed = 0
    /\ entry = st
    /\ RetryIdle
    /\ CacheIdle

CacheSet ==
    /\ \E k \in Keys, v \in Values, ttl \in TtlArgs :
           LET r == Set(cache, k, v, ttl, now)
           IN  /\ cache' = r.cache
               /\ last' = [op |-> "set", at |-> now, key |-> k,
                           value |-> v, ttl |-> ttl,
                           result |-> None, triggered |-> r.triggered,
                           evicted |-> r.evicted]
    /\ UNCHANGED <<st, now, threads>>
    /\ UNCHANGED wfVars
    /\ UNCHANGED retryVars
    /\ UNCHANGED keyed

CacheSetFails ==
    /\ \E k \in Keys, opened \in BOOLEAN :
           LET r == SetFails(cache, k, opened)
           IN  /\ cache' = r.cache
               /\ last' = [NoOperation EXCEPT
                               !.op = "set_failed", !.at = now, !.key = k,
                               !.triggered = r.triggered,
                               !.evicted = r.evicted]
    /\ UNCHANGED <<st, now, threads>>
    /\ UNCHANGED wfVars
    /\ UNCHANGED retryVars
    /\ UNCHANGED keyed

CacheGet ==
    /\ \E k \in Keys :
           LET r == Get(cache, k, now)
           IN  /\ cache' = r.cache
               /\ last' = [NoOperation EXCEPT
                               !.op = "get", !.at = now, !.key = k,
                               !.result = r.result,
                               !.evicted =
                                   IF HasEntry(cache, k)
                                      /\ ~HasEntry(r.cache, k)
                                       THEN <<[key |-> k,
                                               last_accessed |->
                                                   EntryOf(cache, k)
                                                       .last_accessed,
                                               total_before |->
                                                   cache.total_size]>>
                                       ELSE <<>>]
    /\ UNCHANGED <<st, now, threads>>
    /\ UNCHANGED wfVars
    /\ UNCHANGED retryVars
    /\ UNCHANGED keyed

CacheGetFails ==
    /\ \E k \in Keys :
           LET r == GetFails(cache, k, now)
           IN  /\ cache' = r.cache
               /\ last' = [NoOperation EXCEPT
                               !.op = "get_failed", !.at = now, !.key = k,
                               !.result = r.result]
    /\ UNCHANGED <<st, now, threads>>
    /\ UNCHANGED wfVars
    /\ UNCHANGED retryVars
    /\ UNCHANGED keyed

CacheClearExpired ==
    /\ cache' = ClearExpired(cache, now)
    /\ last' = [NoOperation EXCEPT !.op = "clear_expired", !.at = now]
    /\ UNCHANGED <<st, now, threads>>
    /\ UNCHANGED wfVars
    /\ UNCHANGED retryVars
    /\ UNCHANGED keyed

\* _load_metadata: the index as saved by the last set or delete, or the
\* empty index when cache_metadata.json is missing or cannot be parsed; the
\* .pkl files in the directory are not looked at
LoadMetadata(c, readable) ==
    IF readable THEN c
    ELSE [entries |-> <<>>, total_size |-> 0, files |-> c.files]

\* a new process constructs CacheManager on the same cache directory
CacheConstruct ==
    /\ \E readable \in BOOLEAN :
           /\ cache' = LoadMetadata(cache, readable)
           /\ last' = [NoOperation EXCEPT
                           !.op = IF readable THEN "construct"
                                  ELSE "construct_without_index",
                           !.at = now]
    /\ UNCHANGED <<st, now, threads>>
    /\ UNCHANGED wfVars
    /\ UNCHANGED retryVars
    /\ UNCHANGED keyed

\* the wall clock moves on between two operations
Tick ==
    /\ now < MaxTime
    /\ now' = now + 1
    /\ UNCHANGED <<st, cache, last, threads>>
    /\ UNCHANGED wfVars
    /\ UNCHANGED retryVars
    /\ UNCHANGED keyed

\* the same clock, followed over the shorter time that restarts and
\* failures are looked at
TickBeforeRestart ==
    /\ now < MaxFaultTime
    /\ now' = now + 1
    /\ UNCHANGED <<st, cache, last, threads>>
    /\ UNCHANGED wfVars
    /\ UNCHANGED retryVars
    /\ UNCHANGED keyed

NextCache ==
    \/ CacheSet
    \/ CacheGet
    \/ CacheClearExpired
    \/ Tick

SpecCache == InitCache /\ [][NextCache]_vars

\* the cache with storage failures and restarts of the process
NextCacheFaults ==
    \/ CacheSet
    \/ CacheSetFails
    \/ CacheGet
    \/ CacheGetFails
    \/ CacheClearExpired
    \/ CacheConstruct
    \/ TickBeforeRestart

SpecCacheFaults == InitCache /\ [][NextCacheFaults]_vars

(***************************************************************************)
(* CacheManager shared by concurrent callers. The class takes no lock, so  *)
(* the statements of set and _delete_entry of two callers interleave;      *)
(* `total_size += n` and `total_size -= n` are a load followed by a store. *)
(* Each caller makes one call. _cleanup_if_needed is taken as one step.    *)
(***************************************************************************)
\* the caches the callers start on: empty, or holding one entry that has
\* expired by the time of the calls
ThreadCaches ==
    {EmptyCache,
     Set(EmptyCache, "k1", <<1>>, [given |-> TRUE, hours |-> MaxTtl], 0).cache}

InitThreads ==
    /\ st = InitialState("test topic")
    /\ pc = "none"
    /\ node = "none"
    /\ route = "none"
    /\ reason = <<"none", 0>>
    /\ pre = st
    /\ executed = [n \in NodeNames |-> 0]
    /\ reroutes = <<>>
    /\ outcome = "none"
    /\ msgs = 0
    /\ elapsed = 0
    /\ entry = st
    /\ RetryIdle
    /\ cache \in ThreadCaches
    /\ now = MaxTtl + 1
    /\ last = NoOperation
    /\ threads = [t \in Threads |-> IdleThread]
    /\ KeyIdle

\* caller t moves to position p, the cache becoming c
ThreadStep(t, p, c) ==
    /\ threads' = [threads EXCEPT ![t].pc = p]
    /\ cache' = c
    /\ UNCHANGED <<st, now, last>>
    /\ UNCHANGED wfVars
    /\ UNCHANGED retryVars
    /\ UNCHANGED keyed

\* caller t calls set(k, v) or get(k)
ThreadCall ==
    \E t \in Threads, k \in Keys, v \in Values, o \in {"set", "get"} :
        /\ threads[t].pc = "idle"
        /\ threads' = [threads EXCEPT
                          ![t] = [pc |-> IF o = "set" THEN "set_cleanup"
                                         ELSE "get_check",
                                  key |-> k, value |-> v,
                                  size |-> 0, total |-> 0]]
        /\ UNCHANGED <<st, cache, now, last>>
        /\ UNCHANGED wfVars
        /\ UNCHANGED retryVars
        /\ UNCHANGED keyed

\* set, line 93
SetCleanup ==
    \E t \in Threads :
        /\ threads[t].pc = "set_cleanup"
        /\ ThreadStep(t, "set_write", CleanupIfNeeded(cache).cache)

\* set, lines 96-97
SetWrite ==
    \E t \in Threads :
        /\ threads[t].pc = "set_write"
        /\ ThreadStep(t, "set_entry",
                      [cache EXCEPT !.files[threads[t].key] =
                                        threads[t].value])

\* set, lines 100-109
SetEntry ==
    \E t \in Threads :
        /\ threads[t].pc = "set_entry"
        /\ LET k == threads[t].key
               e == [key           |-> k,
                     created       |-> now,
                     size          |-> PickledSize(threads[t].value),
                     ttl_seconds   |-> default_ttl,
                     access_count  |-> 1,
                     last_accessed |-> now]
           IN  ThreadStep(t, "set_load",
                   [cache EXCEPT !.entries =
                       IF HasEntry(cache, k)
                           THEN [i \in 1..Len(cache.entries) |->
                                    IF cache.entries[i].key = k
                                        THEN e ELSE cache.entries[i]]
                           ELSE Append(cache.entries, e)])

\* set, line 111: total_size is loaded
SetLoad ==
    \E t \in Threads :
        /\ threads[t].pc = "set_load"
        /\ threads' = [threads EXCEPT ![t].pc = "set_store",
                                      ![t].total = cache.total_size]
        /\ UNCHANGED <<st, cache, now, last>>
        /\ UNCHANGED wfVars
        /\ UNCHANGED retryVars
        /\ UNCHANGED keyed

\* set, line 111: the sum is stored
SetStore ==
    \E t \in Threads :
        /\ threads[t].pc = "set_store"
        /\ ThreadStep(t, "done",
                      [cache EXCEPT !.total_size =
                           threads[t].total
                               + PickledSize(threads[t].value)])

\* get, lines 60-81: a missing file or a live entry ends the call, an
\* expired entry goes on to _delete_entry
GetCheck ==
    \E t \in Threads :
        /\ threads[t].pc = "get_check"
        /\ LET k == threads[t].key
           IN  ThreadStep(t,
                   IF cache.files[k] # None /\ HasEntry(cache, k)
                      /\ Expired(EntryOf(cache, k), now)
                       THEN "delete_unlink" ELSE "done",
                   cache)

\* _delete_entry, lines 126-129; the entry is gone already: nothing more
DeleteUnlink ==
    \E t \in Threads :
        /\ threads[t].pc = "delete_unlink"
        /\ LET k == threads[t].key
           IN  ThreadStep(t,
                   IF HasEntry(cache, k) THEN "delete_load" ELSE "done",
                   [cache EXCEPT !.files[k] = None])

\* _delete_entry, lines 130-131: the entry and total_size are read; a
\* KeyError (another caller deleted the entry meanwhile) ends the call in
\* the except branch
DeleteLoad ==
    \E t \in Threads :
        /\ threads[t].pc = "delete_load"
        /\ LET k == threads[t].key
           IN  IF HasEntry(cache, k)
                   THEN threads' = [threads EXCEPT
                                       ![t].pc = "delete_store",
                                       ![t].size = EntryOf(cache, k).size,
                                       ![t].total = cache.total_size]
                   ELSE threads' = [threads EXCEPT ![t].pc = "done"]
        /\ UNCHANGED <<st, cache, now, last>>
        /\ UNCHANGED wfVars
        /\ UNCHANGED retryVars
        /\ UNCHANGED keyed

\* _delete_entry, line 131: the difference is stored
DeleteStore ==
    \E t \in Threads :
        /\ threads[t].pc = "delete_store"
        /\ ThreadStep(t, "delete_remove",
                      [cache EXCEPT !.total_size =
                           threads[t].total - threads[t].size])

\* _delete_entry, line 132: del entries[cache_key], a caught KeyError when
\* the key is gone
DeleteRemove ==
    \E t \in Threads :
        /\ threads[t].pc = "delete_remove"
        /\ LET k == threads[t].key
               Kept(e) == e.key # k
           IN  ThreadStep(t, "done",
                   [cache EXCEPT !.entries = SelectSeq(@, Kept)])

NextThreads ==
    \/ ThreadCall
    \/ SetCleanup
    \/ SetWrite
    \/ SetEntry
    \/ SetLoad
    \/ SetStore
    \/ GetCheck
    \/ DeleteUnlink
    \/ DeleteLoad
    \/ DeleteStore
    \/ DeleteRemove

SpecThreads == InitThreads /\ [][NextThreads]_vars

(***************************************************************************)
(* _generate_cache_key called for one request after another; `keyed`       *)
(* keeps the last two calls                                                *)
(***************************************************************************)
InitKey ==
    /\ st = InitialState("test topic")
    /\ pc = "none"
    /\ node = "none"
    /\ route = "none"
    /\ reason = <<"none", 0>>
    /\ pre = st
    /\ executed = [n \in NodeNames |-> 0]
    /\ reroutes = <<>>
    /\ outcome = "none"
    /\ msgs = 0
    /\ elapsed = 0
    /\ entry = st
    /\ RetryIdle
    /\ CacheIdle

GenerateKey ==
    /\ \E f \in FuncNames, args \in ArgTuples, kw \in KwargLists :
           keyed' = <<keyed[2],
                      [func |-> f, args |-> args, kwargs |-> kw,
                       key |-> GenerateCacheKey(f, args, kw)]>>
    /\ UNCHANGED <<st, cache, now, last, threads>>
    /\ UNCHANGED wfVars
    /\ UNCHANGED retryVars

NextKey == GenerateKey

SpecKey == InitKey /\ [][NextKey]_vars

(***************************************************************************)
(* Properties                                                              *)
(***************************************************************************)
\* the reasons for going back to a stage, as the re-entry rule counts them
ReentryReasonKinds ==
    {"request_flags", "escalation", "literature_retry", "gap_enhancement",
     "quality_retry", "publication_retry"}

\* C1: every run reaches the terminal route, and does so after at most
\* (number of stages) + (number of re-entry reasons) stage dispatches: it
\* never dispatches more often and never leaves the graph any other way.
C1_TerminalWithinBound ==
    /\ Dispatches <= Cardinality(NodeNames) + Cardinality(ReentryReasonKinds)
    /\ pc # "failed"

\* C2: over any sequence of router calls no reason re-routes to a stage
\* more than once.
C2_OncePerReason ==
    \A i, j \in 1..Len(reroutes) : reroutes[i] = reroutes[j] => i = j

\* the re-routing decisions taken before the last router call
PriorReroutes ==
    IF reason[1] \in ReentryReasons
        THEN SubSeq(reroutes, 1, Len(reroutes) - 1)
        ELSE reroutes

\* the condition that made the router re-route for reason r holds in s
TriggerPresent(s, r) ==
    CASE r[1] = "needs_additional_papers"   -> s.needs_additional_papers
      [] r[1] = "needs_deeper_analysis"     -> s.needs_deeper_analysis
      [] r[1] = "needs_statistical_summary" -> s.needs_statistical_summary
      [] r[1] = "escalation"       -> r[2] = MaxOf(HighPriority(s))
      [] r[1] = "literature_retry" ->
             /\ s.papers_found < MinPapersNoRetry
             /\ Len(s.completed_steps) < RetryMaxCompleted
      [] r[1] = "gap_enhancement"  ->
             /\ s.research_gaps < MinGaps
             /\ InSeq("analysis_agent", s.completed_steps)
      [] r[1] = "quality_retry"    -> LowQualitySteps(s) # {}
      [] r[1] = "publication_retry" ->
             /\ InSeq("publication_assistant", s.completed_steps)
             /\ ~s.executive_summary
      [] OTHER -> FALSE

\* the router was last consulted on a state that asks again for a re-entry
\* it has already granted
ConsultedOnRepeat ==
    /\ route # "none"
    /\ \E k \in 1..Len(PriorReroutes) : TriggerPresent(pre, PriorReroutes[k])

\* C3: consulted on a state in which a stage would be revisited a second
\* time for a reason that already caused a re-entry, the router returns
\* "end" and appends an error to the log.
C3_RepeatEndsWithError ==
    ConsultedOnRepeat => (route = "end" /\ Len(st.errors) > Len(pre.errors))

\* execute_with_retry has returned to its caller
Returned == rpc \in {"succeeded", "recovered"}

\* C4: after execute_with_retry returns, by success or by recovery, the id
\* of the invoked stage is in completed_steps exactly once.
C4_CompletedExactlyOnce ==
    Returned => Count(StageIdOf[step_name], st.completed_steps) = 1

\* the state carries the fallback of the step and the recovery marks
FallbackRecorded ==
    /\ st.recovery_applied
    /\ st.recovery_type # "none"
    /\ FallbackArtifactOf[st.recovery_type] \in st.fallback

\* C5: a call whose function fails on every invocation invokes it exactly
\* max_retries times and returns the fallback artifact with recovery_applied
\* and recovery_type, whatever retry_counts held when the call began.
C5_ThreeAttemptsThenFallback ==
    rpc = "recovered" => (invoked = max_retries /\ FallbackRecorded)

\* C5, amended: such a call invokes the function max_retries minus the
\* stored retry count times (the count is 0 when there is no entry) and
\* then returns the fallback artifact with recovery_applied and
\* recovery_type.
C5_RemainingAttemptsThenFallback ==
    rpc = "recovered" =>
        /\ invoked = max_retries - entry.retry_counts[step_name]
        /\ failures = invoked
        /\ FallbackRecorded

\* a second call for a step whose first call was exhausted
C5_Witness ==
    /\ rpc = "recovered"
    /\ entry.retry_counts[step_name] = max_retries
    /\ invoked = 0
    /\ FallbackRecorded

\* C6: no exception leaves execute_with_retry: every failure of the function
\* is counted in retry_counts and the recovery chosen on exhaustion returns.
C6_NoExceptionEscapes ==
    /\ rpc # "raised"
    /\ rpc \in {"loop", "sleep", "recovered"} =>
           st.retry_counts[step_name] = entry.retry_counts[step_name] + failures

\* a step without a strategy of its own was recovered after three failures
C6_Witness ==
    /\ rpc = "recovered"
    /\ step_name = "custom_step"
    /\ failures = max_retries
    /\ st.recovery_type = "generic"

\* C7: a call in which the function fails fewer than max_retries times and
\* then succeeds leaves no retry_counts entry for the step, does not set
\* recovery_applied and writes no fallback artifact.
C7_SuccessClearsRetryCount ==
    rpc = "succeeded" =>
        /\ st.retry_counts[step_name] = 0
        /\ st.recovery_applied = entry.recovery_applied
        /\ st.fallback = entry.fallback

\* two failures, then success
C7_Witness ==
    /\ rpc = "succeeded"
    /\ failures = max_retries - 1
    /\ invoked = max_retries
    /\ st.retry_counts[step_name] = 0

\* C8: whenever the error log holds more than five entries when the next
\* stage is chosen, the decision is the terminal route, whatever requests
\* or escalations are pending.
C8_ErrorCeilingWins ==
    (route # "none" /\ Len(pre.errors) > ErrorCeiling) => route = "end"

\* C9: when six or more errors are logged before publication starts,
\* publication never runs and run() returns a state with
\* total_execution_time set and workflow_completed false.
C9_NoPublicationAfterSixErrors ==
    /\ (pc = "node" /\ node = "publication") => Len(st.errors) <= ErrorCeiling
    /\ (pc = "done" /\ Len(pre.errors) > ErrorCeiling) =>
           /\ executed["publication"] = 0
           /\ st.total_execution_time
           /\ ~st.workflow_completed

\* a run that was stopped by the error ceiling before publication
C9_Witness ==
    /\ pc = "done"
    /\ outcome = "normal"
    /\ Len(pre.errors) > ErrorCeiling
    /\ executed["hypothesis_generation"] = 1
    /\ executed["publication"] = 0
    /\ st.total_execution_time

\* the literature stage has just finished and found nothing
LiteratureEmpty(s) ==
    s.completed_steps = <<"literature_scanner">> /\ s.papers_found = 0

\* C10: after a literature stage that ends with no papers the next router
\* decision is the terminal route, whatever flags, requests or escalations
\* are on the state.
C10_EmptyPapersEnd ==
    (route # "none" /\ LiteratureEmpty(pre)) => route = "end"

\* C10, amended: after a literature stage that ends with no papers the next
\* router decision is the terminal route unless a communication override
\* (an unprocessed needs_* flag, a routable high-complexity escalation or an
\* unprocessed routable assistance request) is pending on the state.
C10_EmptyPapersEndUnlessOverride ==
    (/\ route # "none"
     /\ LiteratureEmpty(pre)
     /\ CheckCommunicationRouting(pre).route = "continue") => route = "end"

\* the zero-papers gate ended the routing, with a request on the state that
\* the router had already served
C10_Witness ==
    /\ route = "end"
    /\ reason[1] = "no_papers"
    /\ LiteratureEmpty(pre)
    /\ pre.needs_deeper_analysis

\* run() has returned from a run in which every stage ran once and no
\* failure was logged
AllSucceededFirstAttempt ==
    /\ pc = "done"
    /\ outcome = "normal"
    /\ \A n \in NodeNames : executed[n] = 1
    /\ st.errors = <<>>

\* C11: after a run in which all five stages succeed on their first attempt
\* completed_steps is exactly the five canonical stage ids in canonical
\* order, retry_counts has no entries, and the run left the graph by the
\* terminal edge after publication.
C11_CanonicalCompletion ==
    AllSucceededFirstAttempt =>
        /\ st.completed_steps = CanonicalIds
        /\ \A n \in StepNames : st.retry_counts[n] = 0
        /\ node = "publication"

\* the stages in canonical order, as the router names them
CanonicalStages == <<"literature_search", "analysis", "data_analysis",
                     "hypothesis_generation", "publication">>

\* positions of the canonical stages whose id is not in completed_steps
Missing(s) ==
    {i \in 1..Len(CanonicalIds) : ~InSeq(CanonicalIds[i], s.completed_steps)}

\* the router was last consulted with nothing pending and the error log
\* within the ceiling
ConsultedQuietly ==
    /\ route # "none"
    /\ CheckCommunicationRouting(pre).route = "continue"
    /\ Len(pre.errors) <= ErrorCeiling

\* C12: with nothing pending and at most five errors the router returns the
\* first canonical stage that is not completed, subject only to the
\* zero-papers gate, on every call.
C12_FirstIncompleteStage ==
    (ConsultedQuietly /\ Missing(pre) # {}) =>
        route = IF LiteratureEmpty(pre) THEN "end"
                ELSE CanonicalStages[MinOf(Missing(pre))]

\* C13: with all five canonical stages completed, nothing pending and at
\* most five errors, the router returns "end" whatever the research gaps,
\* quality assessments or executive summary are.
C13_AllCompleteEnds ==
    (ConsultedQuietly /\ Missing(pre) = {}) => route = "end"

\* the decisions the router takes on s for pending requests and escalations,
\* up to two calls: the stages it names, in order
RequestRoutes(s) ==
    LET d1 == CheckCommunicationRouting(s)
        d2 == CheckCommunicationRouting(d1.st)
    IN  IF d1.route = "continue" THEN <<>>
        ELSE IF d2.route = "continue" THEN <<d1.route>>
        ELSE <<d1.route, d2.route>>

\* C14: a cross-stage request raised while nothing else is pending, over the
\* bus or through the fallback, is routed to the stage it names by exactly
\* one router decision; this holds for a first request and for a later one
\* of the same kind alike.
C14_RequestRoutedExactlyOnce ==
    (pc = "caller" /\ msgs < MaxMessages
        /\ CheckCommunicationRouting(st).route = "continue") =>
        /\ \A m \in BusMessages :
               m.request_type \in {"more_papers", "deeper_analysis"} =>
                   RequestRoutes(send_message(m, st))
                       = <<RouteOfRequest(m.request_type)>>
        /\ \A r \in FallbackRequests :
               r[2] \in RoutableRequests =>
                   RequestRoutes(RequestAssistanceFallback(
                                     st, "Analysis Agent", r[1], r[2]))
                       = <<RouteOfRequest(r[2])>>

\* C15: run() always returns; when an exception escaped the graph the state
\* it returns has the failure in errors, workflow_completed false and the
\* fallback executive_summary.
C15_RunNeverRaises ==
    /\ pc = "failed" => ENABLED RunExcept
    /\ (pc = "done" /\ outcome = "exception") =>
           /\ InSeq("Workflow failure", st.errors)
           /\ ~st.workflow_completed
           /\ st.executive_summary

\* run() has returned through its except branch
C15_Witness == pc = "done" /\ outcome = "exception"

\* C16: once more than 1800 seconds have elapsed in a run no further stage
\* is dispatched, and the state run() then returns is marked incomplete.
C16_NoDispatchAfterTimeout ==
    /\ [][elapsed > max_execution_time => executed' = executed]_vars
    /\ []((pc = "done" /\ outcome = "normal"
              /\ elapsed > max_execution_time) => ~st.workflow_completed)

\* the time to live a set asked for: its ttl argument, the default without one
RequestedTtl(ttl) == IF ttl.given THEN ttl.hours ELSE default_ttl

\* C17: right after set(k, v, ttl) a get(k) returns v, whatever was done to
\* the cache before; once more than ttl has passed since the set, with no
\* later set of k, get(k) returns a miss.
C17_SetThenGet ==
    last.op = "set" =>
        /\ Get(cache, last.key, last.at).result = last.value
        /\ \A t \in last.at..MaxTime :
               t - last.at > RequestedTtl(last.ttl) =>
                   Get(cache, last.key, t).result = None

\* sum of the size fields of the entries in the metadata index
RECURSIVE SizeSum(_)
SizeSum(es) == IF es = <<>> THEN 0 ELSE Head(es).size + SizeSum(Tail(es))

\* C18: after any sequence of set, get and clear_expired the sizes of the
\* live entries add up to at most max_size_bytes.
C18_WithinCapacity == SizeSum(cache.entries) <= max_size_bytes

\* C19: the recorded total_size equals the sum of the size fields of the
\* entries in the metadata index.
C19_TotalSizeIsSum == cache.total_size = SizeSum(cache.entries)

\* the total is above 80% of the capacity
OverTarget(total) ==
    total * TargetDenominator > max_size_bytes * TargetNumerator

\* the last operation was a set whose cleanup found the capacity exceeded
CleanupRan == last.op = "set" /\ last.triggered

\* C20: a cleanup triggered by exceeding the capacity evicts in ascending
\* last_accessed order (nothing it keeps was accessed before something it
\* evicts) and stops as soon as total_size is at most 80% of the capacity:
\* every eviction found the total above that mark, and entries are kept
\* only when the total had come down to it.
C20_LruEvictionToTarget ==
    CleanupRan =>
        LET ev == last.evicted
        IN  /\ \A i, j \in 1..Len(ev) :
                   i < j => ev[i].last_accessed <= ev[j].last_accessed
            /\ \A i \in 1..Len(ev), j \in 1..Len(cache.entries) :
                   ev[i].last_accessed <= cache.entries[j].last_accessed
            /\ \A i \in 1..Len(ev) : OverTarget(ev[i].total_before)
            /\ (\E j \in 1..Len(cache.entries) :
                    cache.entries[j].key # last.key)
                   => ~OverTarget(cache.total_size - PickledSize(last.value))

\* a cleanup evicted two entries, the older one first
C20_Witness ==
    /\ CleanupRan
    /\ Len(last.evicted) >= 2
    /\ last.evicted[1].last_accessed < last.evicted[2].last_accessed

\* place of key k in the order a capacity cleanup would visit the entries
EvictionRank(c, k) ==
    LET order == EvictionOrder(c.entries)
    IN  CHOOSE i \in 1..Len(order) : order[i].key = k

\* the last operation was a get that returned the stored value
GetHit == last.op = "get" /\ last.result # None /\ HasEntry(cache, last.key)

\* C21: when entry A was inserted before entry B and A is read with a
\* successful get after B was inserted, a capacity eviction takes B before A.
C21_GetRefreshesLastAccess ==
    GetHit =>
        \A j \in 1..Len(cache.entries) :
            LET a == EntryOf(cache, last.key)
                b == cache.entries[j]
            IN  (b.key # last.key /\ a.created < b.created
                    /\ b.created < last.at)
                    => EvictionRank(cache, b.key) < EvictionRank(cache, a.key)

\* the entries of c other than the one of key k, in dict order
EntriesBut(c, k) ==
    LET Other(e) == e.key # k
    IN  SelectSeq(c.entries, Other)

\* C22: a get on a key whose entry is older than its TTL returns a miss and
\* removes the entry: the key leaves the index, its file is gone, total_size
\* goes down by the entry's size and every other entry and file is as before.
C22_ExpiredGetEvicts ==
    [][\A k \in Keys :
           (/\ last'.op = "get" /\ last'.key = k /\ last'.at = now
            /\ cache.files[k] # None
            /\ HasEntry(cache, k)
            /\ Expired(EntryOf(cache, k), now))
           => /\ last'.result = None
              /\ ~HasEntry(cache', k)
              /\ cache'.files[k] = None
              /\ cache'.total_size
                     = cache.total_size - EntryOf(cache, k).size
              /\ cache'.entries = EntriesBut(cache, k)
              /\ \A o \in Keys \ {k} : cache'.files[o] = cache.files[o]]_vars

\* a get found its entry expired and removed it while another entry stayed
C22_Witness ==
    /\ last.op = "get"
    /\ Len(last.evicted) = 1
    /\ cache.entries # <<>>

\* get_stats: total_entries and the bytes behind total_size_mb
Stats(c) == [total_entries |-> Len(c.entries), total_size |-> c.total_size]

\* C23: a store constructed while the metadata index is missing or
\* unreadable behaves as an empty cache: stats report no entries and no
\* bytes, and get misses for every key, also for keys whose payload files an
\* earlier process left on disk.
C23_LostIndexIsEmptyCache ==
    last.op = "construct_without_index" =>
        /\ Stats(cache) = [total_entries |-> 0, total_size |-> 0]
        /\ \A k \in Keys : Get(cache, k, now).result = None

\* C24: a storage failure during get gives a miss and one during set gives
\* a failure result, and a failed set is a no-op on the store: the metadata
\* index, total_size and what get returns for every key, the key of the
\* failed set included, are as before the call.
C24_FailedSetIsNoOp ==
    [][/\ last'.op = "get_failed" => last'.result = None
       /\ last'.op = "set_failed" =>
              /\ cache'.entries = cache.entries
              /\ cache'.total_size = cache.total_size
              /\ \A k \in Keys :
                     Get(cache', k, now).result
                         = Get(cache, k, now).result]_vars

\* every concurrent caller has returned
AllReturned == \A t \in Threads : threads[t].pc = "done"

\* C25: whatever the interleaving of concurrent set and expiring get calls,
\* once they have returned total_size is the sum of the sizes of the indexed
\* entries: no update of total_size is lost and no entry is counted twice.
C25_ConcurrentTotalSize ==
    AllReturned => cache.total_size = SizeSum(cache.entries)

\* the keyword arguments of a call as the set of its name/value pairs
KwargSet(kw) == {kw[i] : i \in 1..Len(kw)}

\* two calls make the same logical request: same function name, same
\* positional arguments, same keyword/value pairs in whatever order
SameRequest(c, d) ==
    /\ c.func = d.func
    /\ c.args = d.args
    /\ KwargSet(c.kwargs) = KwargSet(d.kwargs)

\* two calls of _generate_cache_key have been made
TwoKeyCalls == keyed[1].func # "none" /\ keyed[2].func # "none"

\* C26: the cache key does not depend on the order of the keyword
\* arguments, and it differs when the function name or any argument value
\* differs: two calls get the same key exactly when they make the same
\* request.
C26_KeyIdentifiesRequest ==
    TwoKeyCalls =>
        (keyed[1].key = keyed[2].key <=> SameRequest(keyed[1], keyed[2]))

\* one message of every type the bus accepts: the messages agents send and
\* the two types send_message has no handler for
EveryTypeOfMessage ==
    BusMessages
        \cup {Message("analysis_agent", "literature_scanner", typ, "", "", "")
                  : typ \in {"share_resource", "request_retry"}}

\* C27: no message is lost silently. send_message keeps no record of the
\* messages it did nothing for (message_queue is never written), so every
\* message has to change the state the router reads.
C27_NoSilentRequestLoss ==
    pc = "caller" =>
        \A m \in EveryTypeOfMessage : send_message(m, st) # st

\* the request-assistance messages agents put on the bus
BusRequests == {m \in BusMessages : m.message_type = "request_assistance"}

\* C28: after a request-assistance message on the bus the next router
\* decision goes to the stage that satisfies the request: more_papers to
\* literature_search, deeper_analysis to analysis, statistical_summary to
\* data_analysis.
C28_BusRequestRoutedNext ==
    (pc = "caller" /\ CheckCommunicationRouting(st).route = "continue") =>
        \A m \in BusRequests :
            route_next_step(send_message(m, st)).route
                = RouteOfRequest(m.request_type)

\* the escalate-task messages agents put on the bus
BusEscalations == {m \in BusMessages : m.message_type = "escalate_task"}

\* C29: an escalate-task message appends exactly one escalation record with
\* the sender, reason and complexity, leaves the earlier records as they
\* were, and sets the manual-review flag the router and the agents' fallback
\* path use exactly when the complexity is high.
C29_EscalationSetsManualReview ==
    pc = "caller" =>
        \A m \in BusEscalations :
            LET s1 == send_message(m, st)
                n  == Len(st.escalations)
            IN  /\ Len(s1.escalations) = n + 1
                /\ SubSeq(s1.escalations, 1, n) = st.escalations
                /\ s1.escalations[n + 1].sender = m.sender
                /\ s1.escalations[n + 1].reason = m.reason
                /\ s1.escalations[n + 1].complexity = m.complexity
                /\ s1.requires_manual_review
                       = (st.requires_manual_review \/ m.complexity = "high")

\* the fields of the state that hold requests, escalations, quality
\* assessments and routing flags
IntentFields ==
    {"needs_additional_papers", "needs_deeper_analysis",
     "needs_statistical_summary", "additional_papers_processing",
     "deeper_analysis_processing", "statistical_summary_processing",
     "assistance_requests", "escalations", "requires_manual_review",
     "requires_human_review", "quality_assessments"}

\* C30: send_message only records intent. Whatever the message, every field
\* of the state other than the request, escalation, quality-assessment and
\* routing-flag fields is left as it was: completed_steps, errors,
\* retry_counts and the artifacts of the stages are unchanged and no artifact
\* is produced.
C30_BusOnlyRecordsIntent ==
    pc = "caller" =>
        \A m \in EveryTypeOfMessage :
            \A f \in DOMAIN st \ IntentFields :
                send_message(m, st)[f] = st[f]

\* s is a prefix of t
IsPrefix(s, t) == Len(s) <= Len(t) /\ SubSeq(t, 1, Len(s)) = s

EntriesOfStage(s, n) ==
    {i \in 1..Len(s.completed_steps) :
        \/ s.completed_steps[i] = CanonicalIds[CHOOSE k \in 1..Len(CanonicalStages) :
                                                   CanonicalStages[k] = n]
        \/ n \in DOMAIN AgentIdOf /\ s.completed_steps[i] = AgentIdOf[n]
        \/ n = "hypothesis_generation"
               /\ s.completed_steps[i] = "hypothesis_generator"}

\* C32: in every state of a run completed_steps holds no identifier twice,
\* every identifier in it stands for one of the five stages of the graph,
\* and no stage is recorded under two different identifiers.
C32_CompletedStepsAreStages ==
    /\ \A i, j \in 1..Len(st.completed_steps) :
           st.completed_steps[i] = st.completed_steps[j] => i = j
    /\ \A i \in 1..Len(st.completed_steps) :
           \E n \in NodeNames : i \in EntriesOfStage(st, n)
    /\ \A n \in NodeNames : Cardinality(EntriesOfStage(st, n)) <= 1

\* C33: run(query) creates the initial state with that query, current_step
\* literature_search and empty completed_steps and errors, and no step of
\* the run changes query, on the normal and on the exception path alike.
C33_QueryNeverChanges ==
    /\ st.query \in Queries
    /\ st.current_step = "literature_search"
    /\ st.completed_steps = <<>>
    /\ st.errors = <<>>
    /\ [][st'.query = st.query]_vars

\* run came back through its except branch with the query it was given
C33_Witness ==
    /\ pc = "done"
    /\ outcome = "exception"
    /\ st.query = "test topic"

\* C34: the value route_next_step returns after a node is one of the keys
\* of that node's conditional edge map.
C34_RouteIsAnEdge ==
    [][pc = "route" => route' \in EdgeMap[node]]_vars

\* C35: within one call a backoff sleep happens only between two attempts.
\* The sleep after failed attempt n, n < max_retries, has the base delay
\* min(base_delay * backoff_factor^(n-1), max_delay) and a jitter of 10% to
\* 30% of it; nothing is slept before the first attempt, after a successful
\* attempt or after the last failed attempt.
C35_BackoffBetweenAttempts ==
    /\ \A i \in 1..Len(slept) :
           /\ slept[i].after = i
           /\ i < max_retries
           /\ i <= failures
           /\ slept[i].delay
                  = MinOf({base_delay * Power(backoff_factor, i - 1), max_delay})
           /\ slept[i].jitter >= 10
           /\ slept[i].jitter <= 30
    /\ rpc = "loop" => Len(slept) = (IF failures = max_retries
                                         THEN failures - 1 ELSE failures)
    /\ rpc = "succeeded" => Len(slept) = failures
    /\ rpc \in {"recovered", "raised"} =>
           Len(slept) = (IF failures = 0 THEN 0 ELSE failures - 1)

\* a call that failed on every attempt slept 1 and then 2 seconds (plus
\* jitter) between its three attempts and not after the last
C35_Witness ==
    /\ rpc = "recovered"
    /\ failures = max_retries
    /\ Len(slept) = 2
    /\ slept[1].delay = 1
    /\ slept[2].delay = 2

\* C36: a stored retry count lies between 1 and max_retries (0 stands for
\* no entry) and is carried across calls: the attempt counter of a call
\* starts from the stored count, a call invokes the stage at most
\* max_retries minus the stored count times, and a call that finds the
\* count at max_retries invokes the stage not at all and goes straight to
\* the recovery strategy.
C36_RetryCountCarriedAcrossCalls ==
    /\ \A n \in StepNames : st.retry_counts[n] \in 0..max_retries
    /\ rpc \notin {"idle"} =>
           /\ invoked <= max_retries - entry.retry_counts[step_name]
           /\ retry_count = entry.retry_counts[step_name] + failures
           /\ entry.retry_counts[step_name] = max_retries =>
                  /\ invoked = 0
                  /\ slept = <<>>
                  /\ rpc \in {"loop", "recovered", "raised"}

\* a later call for a stage whose earlier call was exhausted: the stage is
\* not invoked and the recovery strategy is applied again
C36_Witness ==
    /\ calls >= 2
    /\ rpc = "recovered"
    /\ entry.recovery_applied
    /\ entry.retry_counts[step_name] = max_retries
    /\ st.retry_counts[step_name] = max_retries
    /\ invoked = 0

\* C37: the publication stage runs at most once in a run and the run ends
\* straight after it: the router is not consulted after publication, so its
\* publication-retry rule never produces a decision of the engine.
C37_PublicationRunsOnce ==
    /\ executed["publication"] <= 1
    /\ executed["publication"] = 1 =>
           /\ pc \in {"finish", "done"}
           /\ node = "publication"
           /\ outcome # "exception"
    /\ reason[1] # "publication_retry"

\* a run that ended with the state on which the router's publication-retry
\* rule would have fired: publication recorded, no executive summary
C37_Witness ==
    /\ pc = "done"
    /\ executed["publication"] = 1
    /\ ~st.executive_summary
    /\ PublicationRetryRouting(st).route = "publication"

\* what node n makes of state s when its work succeeds
CleanResults(n, s) ==
    CASE n = "literature_search" ->
             {literature_search_node(s, [raised |-> FALSE, papers |-> p]) :
                  p \in 1..MaxPapers}
      [] n = "analysis" ->
             {analysis_node(s, [exec |-> "ok", gaps |-> g, timeout |-> FALSE]) :
                  g \in {0, MinGaps}}
      [] n = "data_analysis" ->
             {data_analysis_node(s, [exec |-> "ok", gaps |-> 0,
                                     timeout |-> FALSE])}
      [] n = "hypothesis_generation" ->
             {hypothesis_generation_node(s, [exec |-> "ok", gaps |-> 0,
                                             timeout |-> FALSE])}
      [] n = "publication" ->
             {publication_node(s, [exec |-> "ok", gaps |-> 0,
                                   timeout |-> FALSE])}

\* C38: in a state run returns, workflow_completed holds only if the
\* publication stage ran, and then literature_scanner, analysis_agent,
\* data_analyzer, a hypothesis stage id and publication_assistant are all in
\* completed_steps; and a run that completed with errors or a recovery can
\* be told from a clean one by its errors log or recovery_applied: a stage
\* that leaves the errors log empty and recovery_applied unset has done its
\* work without a failure.
C38_CompletedMeansAllStages ==
    /\ []((pc = "done" /\ st.workflow_completed) =>
              /\ executed["publication"] >= 1
              /\ InSeq("literature_scanner", st.completed_steps)
              /\ InSeq("analysis_agent", st.completed_steps)
              /\ InSeq("data_analyzer", st.completed_steps)
              /\ HypothesisComplete(st)
              /\ InSeq("publication_assistant", st.completed_steps))
    /\ [][(pc = "node" /\ st'.errors = <<>> /\ ~st'.recovery_applied) =>
              st' \in CleanResults(node, st)]_vars

\* a run that completed all its stages with an error on record
C38_Witness ==
    /\ pc = "done"
    /\ st.workflow_completed
    /\ InSeq("publication_assistant", st.completed_steps)
    /\ st.errors # <<>>

\* the outcomes the work under node n can have
OutcomesOf(n) ==
    IF n = "literature_search" THEN SearchOutcomes ELSE AgentOutcomes(n)

\* the state node n returns on s when its work has outcome o
NodeResult(n, s, o) ==
    CASE n = "literature_search"     -> literature_search_node(s, o)
      [] n = "analysis"              -> analysis_node(s, o)
      [] n = "data_analysis"         -> data_analysis_node(s, o)
      [] n = "hypothesis_generation" -> hypothesis_generation_node(s, o)
      [] n = "publication"           -> publication_node(s, o)

\* the failures in one execution of node n: a search that raised or found
\* nothing; an agent that failed (its input was rejected, or execute()
\* caught or raised an exception) and an agent that overran the node's
\* timeout. analysis_node runs no agent when there are no papers.
FailuresOf(n, s, o) ==
    IF n = "literature_search"
        THEN (IF o.raised \/ o.papers = 0 THEN 1 ELSE 0)
    ELSE IF n = "analysis" /\ s.papers_found = 0 THEN 0
    ELSE (IF ~ValidateInputState(s) \/ o.exec # "ok" THEN 1 ELSE 0)
             + (IF o.timeout THEN 1 ELSE 0)

\* the stage of node n is recorded in completed_steps; for the hypothesis
\* stage either of the two identifiers the router accepts
StageRecorded(n, s) ==
    IF n = "hypothesis_generation" THEN HypothesisComplete(s)
    ELSE InSeq(CanonicalIds[CHOOSE k \in 1..Len(CanonicalStages) :
                                CanonicalStages[k] = n], s.completed_steps)

\* C39: each node function returns for every outcome of its work with its
\* stage in completed_steps and with one error appended per failure; only
\* literature_search_node on an empty query appends an error and returns
\* without recording the stage.
C39_NodesAlwaysComplete ==
    pc = "node" =>
        \A o \in OutcomesOf(node) :
            LET r == NodeResult(node, st, o)
            IN  IF node = "literature_search" /\ st.query = ""
                    THEN /\ r.completed_steps = st.completed_steps
                         /\ r.errors = Append(st.errors, "No query provided")
                    ELSE /\ StageRecorded(node, r)
                         /\ IsPrefix(st.errors, r.errors)
                         /\ Len(r.errors)
                                = Len(st.errors) + FailuresOf(node, st, o)

\* the data analysis node has returned after a timeout of an agent that
\* had failed: two errors were appended and the stage is recorded
C39_Witness ==
    /\ pc = "route"
    /\ node = "data_analysis"
    /\ InSeq("data_analyzer", st.completed_steps)
    /\ Len(st.errors) >= 2
    /\ st.errors[Len(st.errors)] = "Data analysis error"
    /\ st.errors[Len(st.errors) - 1] = "Data Analyzer Agent error"

====
